---- MODULE Spec2Model ----
(***************************************************************************)
(* harvester: classification of media file names (Analyzer) and the       *)
(* reconciliation of a library of hardlinks (remove_hardlinks,            *)
(* create_links, remove_empty_directories), modelled from src/main.rs.    *)
(*                                                                         *)
(* Text is a sequence of characters, each character a one-element string  *)
(* token.  A path is a sequence of components, each component a text.     *)
(***************************************************************************)
EXTENDS Integers, Sequences, FiniteSets, TLC

VARIABLES
    path,           \* Analyzer: the file name handed to analyze
    result,         \* Analyzer: "pending", or what analyze returned
    src,            \* the incoming tree: file name -> inode
    tfiles,         \* the library tree: path of a regular file -> inode
    tdirs,          \* the library tree: the directories (<< >> is the root)
    pc,             \* position of main
    dry,            \* args[3] == "--dry" of the current run
    scanned_files,  \* main's scanned_files
    deleted,        \* paths remove_hardlinks printed "removing file" for
    extra,          \* paths remove_hardlinks printed "extra file found" for
    links,          \* the vector create_links returns
    removed_dirs,   \* paths "removing directory" was printed for, in that order
    owned,          \* history: library paths whose file a hard_link of this tool made
    t0,             \* history: the library tree when the current run scanned
    change,         \* history: what happened outside since the last completed run
    hist            \* history: change, as the current run's scan found it

avars == <<path, result>>
fvars == <<src, tfiles, tdirs, pc, dry, scanned_files, deleted, extra, links,
           removed_dirs, owned, t0, change, hist>>
vars == <<path, result, src, tfiles, tdirs, pc, dry, scanned_files, deleted, extra,
          links, removed_dirs, owned, t0, change, hist>>

(***************************************************************************)
(* Characters and text                                                     *)
(***************************************************************************)

\* The decimal digits a u32 is written with.
AsciiDigits == {"0", "1", "2", "3", "4", "5", "6", "7", "8", "9"}

\* A decimal digit of another script (U+0663): \d of the regex crate is
\* Unicode-aware and matches it, str::parse::<u32> does not accept it.
ArabicThree == "U+0663"

IsDigit(c) == c \in AsciiDigits \cup {ArabicThree}

\* char::to_lowercase on the letters the model's names use.
Lower(c) ==
    CASE c = "A" -> "a" [] c = "D" -> "d" [] c = "E" -> "e" [] c = "M" -> "m"
      [] c = "N" -> "n" [] c = "S" -> "s" [] c = "V" -> "v" [] c = "X" -> "x"
      [] OTHER -> c

to_lowercase(s) == [i \in 1..Len(s) |-> Lower(s[i])]

\* str::replace of one character by another.
replace(s, from, to) == [i \in 1..Len(s) |-> IF s[i] = from THEN to ELSE s[i]]

Slice(s, a, b) == SubSeq(s, a, b)

\* The text s holds the literal lit at position i.
Has(s, i, lit) ==
    /\ i >= 1
    /\ i + Len(lit) - 1 <= Len(s)
    /\ \A k \in 1..Len(lit) : s[i + k - 1] = lit[k]

At(s, i, set) == i >= 1 /\ i <= Len(s) /\ s[i] \in set

NotAt(s, i, set) == i >= 1 /\ i <= Len(s) /\ s[i] \notin set

\* \d+ from position i, greedy: the position after the run of digits.
RECURSIVE DigitsEnd(_, _)
DigitsEnd(s, i) == IF i <= Len(s) /\ IsDigit(s[i]) THEN DigitsEnd(s, i + 1) ELSE i

Max(S) == CHOOSE x \in S : \A y \in S : y <= x
Min(S) == CHOOSE x \in S : \A y \in S : x <= y

(***************************************************************************)
(* str::parse::<u32>                                                       *)
(***************************************************************************)

DigitVal(c) ==
    CASE c = "0" -> 0 [] c = "1" -> 1 [] c = "2" -> 2 [] c = "3" -> 3 [] c = "4" -> 4
      [] c = "5" -> 5 [] c = "6" -> 6 [] c = "7" -> 7 [] c = "8" -> 8 [] c = "9" -> 9

\* u32::MAX is 4294967295 == 10 * U32MaxDiv10 + U32MaxMod10.
U32MaxDiv10 == 429496729
U32MaxMod10 == 5

\* The digit loop of from_str_radix: checked_mul(10) then checked_add(digit);
\* an error for a character that is no ASCII digit and for an overflow.
RECURSIVE ParseFrom(_, _, _)
ParseFrom(s, i, acc) ==
    IF i > Len(s) THEN [ok |-> TRUE, val |-> acc]
    ELSE IF s[i] \notin AsciiDigits THEN [ok |-> FALSE, val |-> 0]
    ELSE IF acc > U32MaxDiv10 THEN [ok |-> FALSE, val |-> 0]
    ELSE IF acc = U32MaxDiv10 /\ DigitVal(s[i]) > U32MaxMod10 THEN [ok |-> FALSE, val |-> 0]
    ELSE ParseFrom(s, i + 1, acc * 10 + DigitVal(s[i]))

parse_u32(s) == IF Len(s) = 0 THEN [ok |-> FALSE, val |-> 0] ELSE ParseFrom(s, 1, 0)

\* format!("{}", n) of a u32.
DigitChar(d) ==
    CASE d = 0 -> "0" [] d = 1 -> "1" [] d = 2 -> "2" [] d = 3 -> "3" [] d = 4 -> "4"
      [] d = 5 -> "5" [] d = 6 -> "6" [] d = 7 -> "7" [] d = 8 -> "8" [] d = 9 -> "9"

RECURSIVE format_u32(_)
format_u32(n) == IF n < 10 THEN <<DigitChar(n)>> ELSE format_u32(n \div 10) \o <<DigitChar(n % 10)>>

(***************************************************************************)
(* Analyzer::new: the six patterns.  Each XCaptures(s) is what             *)
(* Regex::captures gives on s: [m |-> FALSE], or m |-> TRUE with the       *)
(* groups the code reads.  The regex crate matches leftmost-first: a       *)
(* greedy leading group takes the longest prefix after which the rest    *)
(* still matches, so group 1 ends at the largest position p that works.  *)
(***************************************************************************)

NoMatch == [m |-> FALSE, g1 |-> << >>, g2 |-> << >>, g3 |-> << >>]

Sep == {".", " ", "_"}

\* [. _]* from position i, greedy: the position after the run.
RECURSIVE SepEnd(_, _)
SepEnd(s, i) == IF i <= Len(s) /\ s[i] \in Sep THEN SepEnd(s, i + 1) ELSE i

\* [^]]+ from position i, greedy: the position after the run.
RECURSIVE NotCloseEnd(_, _)
NotCloseEnd(s, i) == IF i <= Len(s) /\ s[i] # "]" THEN NotCloseEnd(s, i + 1) ELSE i

\* cleaner: ([. _]*)\[[^]]+\]([. _]*) matched from position i: 0 when it
\* does not match there, else the position after the match.
CleanerEnd(s, i) ==
    LET k == SepEnd(s, i)
        c == NotCloseEnd(s, k + 1)
    IN  IF At(s, k, {"["}) /\ c > k + 1 /\ At(s, c, {"]"}) THEN SepEnd(s, c + 1) ELSE 0

\* cleaner.replace_all(name, ""): every leftmost non-overlapping match is cut.
RECURSIVE cleaner_replace_all(_)
cleaner_replace_all(s) ==
    LET starts == {i \in 1..Len(s) : CleanerEnd(s, i) # 0}
    IN  IF starts = {} THEN s
        ELSE LET i == Min(starts)
                 e == CleanerEnd(s, i)
             IN  Slice(s, 1, i - 1) \o cleaner_replace_all(Slice(s, e, Len(s)))

\* ( END)? from position j: the positions the rest may go on from.
OptEND(s, j) == {j} \cup (IF Has(s, j, <<" ", "E", "N", "D">>) THEN {j + 4} ELSE {})

\* title_season_episode: (.*) [sS](\d+)[eE](\d+) (.*)
SeasonEpisodeAt(s, p) ==
    LET j == DigitsEnd(s, p + 2)
        k == DigitsEnd(s, j + 1)
    IN  /\ At(s, p, {" "})
        /\ At(s, p + 1, {"s", "S"})
        /\ j > p + 2
        /\ At(s, j, {"e", "E"})
        /\ k > j + 1
        /\ At(s, k, {" "})

title_season_episode(s) ==
    LET ps == {p \in 1..Len(s) : SeasonEpisodeAt(s, p)}
    IN  IF ps = {} THEN NoMatch
        ELSE LET p == Max(ps)
                 j == DigitsEnd(s, p + 2)
                 k == DigitsEnd(s, j + 1)
             IN  [m |-> TRUE, g1 |-> Slice(s, 1, p - 1), g2 |-> Slice(s, p + 2, j - 1),
                  g3 |-> Slice(s, j + 1, k - 1)]

\* title_episode_dash: ^(.*) - (\d+)(v\d)?( END)?( .*)?$
DashAt(s, p) ==
    LET j == DigitsEnd(s, p + 3)
        afterV == {j} \cup (IF At(s, j, {"v"}) /\ At(s, j + 1, AsciiDigits \cup {ArabicThree})
                            THEN {j + 2} ELSE {})
    IN  /\ Has(s, p, <<" ", "-", " ">>)
        /\ j > p + 3
        /\ \E j1 \in afterV : \E j2 \in OptEND(s, j1) :
              j2 = Len(s) + 1 \/ At(s, j2, {" "})

title_episode_dash(s) ==
    LET ps == {p \in 1..Len(s) : DashAt(s, p)}
    IN  IF ps = {} THEN NoMatch
        ELSE LET p == Max(ps)
             IN  [m |-> TRUE, g1 |-> Slice(s, 1, p - 1),
                  g2 |-> Slice(s, p + 3, DigitsEnd(s, p + 3) - 1), g3 |-> << >>]

\* title_episode_quoted_name: ^(.*) [eE](\d+)( END)? '.*'?$
QuotedAt(s, p) ==
    LET j == DigitsEnd(s, p + 2)
    IN  /\ At(s, p, {" "})
        /\ At(s, p + 1, {"e", "E"})
        /\ j > p + 2
        /\ \E j1 \in OptEND(s, j) : Has(s, j1, <<" ", "'">>)

title_episode_quoted_name(s) ==
    LET ps == {p \in 1..Len(s) : QuotedAt(s, p)}
    IN  IF ps = {} THEN NoMatch
        ELSE LET p == Max(ps)
             IN  [m |-> TRUE, g1 |-> Slice(s, 1, p - 1),
                  g2 |-> Slice(s, p + 2, DigitsEnd(s, p + 2) - 1), g3 |-> << >>]

\* ( \((.*)\))? from position j: the positions the rest may go on from.
OptParen(s, j) ==
    {j} \cup (IF Has(s, j, <<" ", "(">>)
              THEN {q + 1 : q \in {q \in (j + 2)..Len(s) : s[q] = ")"}}
              ELSE {})

\* title_episode: ^(.*) (\d+)( END)?( \((.*)\))?( v2)?$
EpisodeAt(s, p) ==
    LET j == DigitsEnd(s, p + 1)
    IN  /\ At(s, p, {" "})
        /\ j > p + 1
        /\ \E j1 \in OptEND(s, j) : \E j2 \in OptParen(s, j1) :
              \E j3 \in {j2} \cup (IF Has(s, j2, <<" ", "v", "2">>) THEN {j2 + 3} ELSE {}) :
                 j3 = Len(s) + 1

title_episode(s) ==
    LET ps == {p \in 1..Len(s) : EpisodeAt(s, p)}
    IN  IF ps = {} THEN NoMatch
        ELSE LET p == Max(ps)
             IN  [m |-> TRUE, g1 |-> Slice(s, 1, p - 1),
                  g2 |-> Slice(s, p + 1, DigitsEnd(s, p + 1) - 1), g3 |-> << >>]

\* movie_year: (.*[^-]) (\d{4})( [^-]|$)
YearAt(s, p) ==
    /\ NotAt(s, p - 1, {"-"})
    /\ At(s, p, {" "})
    /\ \A k \in 1..4 : p + k <= Len(s) /\ IsDigit(s[p + k])
    /\ \/ At(s, p + 5, {" "}) /\ NotAt(s, p + 6, {"-"})
       \/ p + 4 = Len(s)

movie_year(s) ==
    LET ps == {p \in 1..Len(s) : YearAt(s, p)}
    IN  IF ps = {} THEN NoMatch
        ELSE LET p == Max(ps)
             IN  [m |-> TRUE, g1 |-> Slice(s, 1, p - 1), g2 |-> Slice(s, p + 1, p + 4),
                  g3 |-> << >>]

(***************************************************************************)
(* Path::extension, Path::file_stem                                        *)
(***************************************************************************)

\* The last "." of a file name that is not its first character, 0 if none.
LastDot(f) ==
    LET ds == {i \in 2..Len(f) : f[i] = "."}
    IN  IF ds = {} THEN 0 ELSE Max(ds)

HasExtension(f) == LastDot(f) # 0
extension(f) == Slice(f, LastDot(f) + 1, Len(f))
file_stem(f) == IF LastDot(f) = 0 THEN f ELSE Slice(f, 1, LastDot(f) - 1)

(***************************************************************************)
(* MediaData and Analyzer::analyze                                         *)
(***************************************************************************)

Movie(t, y) == [kind |-> "Movie", title |-> t, year |-> y]
ShowEpisode(n, s, e) == [kind |-> "ShowEpisode", name |-> n, season |-> s, episode |-> e]
Garbage == [kind |-> "Garbage"]
None == [kind |-> "None"]
\* Option::unwrap on a failed parse::<u32>: the process aborts.
Panic == [kind |-> "Panic"]

VideoExt == {<<"m", "k", "v">>, <<"m", "p", "4">>}
GarbageExt ==
    {<<"s", "r", "t">>, <<"s", "u", "b">>, <<"i", "d", "x">>, <<"o", "g", "g">>,
     <<"m", "p", "3">>, <<"j", "p", "g">>, <<"p", "n", "g">>, <<"t", "s">>,
     <<"b", "d", "j", "o">>, <<"c", "l", "p", "i">>, <<"m", "p", "l", "s">>,
     <<"m", "2", "t", "s">>, <<"b", "d", "m", "v">>,
     <<"t", "o", "r", "r", "e", "n", "t">>, <<"m", "e", "t", "a">>, <<"e", "x", "e">>,
     <<"n", "f", "o">>, <<"t", "x", "t">>, <<"m", "d", "5">>}

\* Lines 69-72: the name the patterns are tried on.
normalize(stem) ==
    replace(replace(cleaner_replace_all(to_lowercase(stem)), "_", " "), ".", " ")

\* One rule's arm: the record it builds, the unwrap of each parse included.
SeasonEpisodeArm(x) ==
    LET se == parse_u32(x.g2)
        ep == parse_u32(x.g3)
    IN  IF se.ok /\ ep.ok THEN ShowEpisode(x.g1, se.val, ep.val) ELSE Panic

\* Mutant of EpisodeArm: the default season written as 0.
EpisodeArmSeasonZero(x) ==
    LET ep == parse_u32(x.g2)
    IN  IF ep.ok THEN ShowEpisode(x.g1, 0, ep.val) ELSE Panic

EpisodeArm(x) ==
    LET ep == parse_u32(x.g2)
    IN  IF ep.ok THEN ShowEpisode(x.g1, 1, ep.val) ELSE Panic

MovieArm(x) ==
    LET y == parse_u32(x.g2)
    IN  IF y.ok THEN Movie(x.g1, y.val) ELSE Panic

\* Mutant of classify: the bare trailing integer tried before the dash form.
classify_episode_before_dash(name) ==
    IF title_season_episode(name).m THEN SeasonEpisodeArm(title_season_episode(name))
    ELSE IF title_episode(name).m THEN EpisodeArm(title_episode(name))
    ELSE IF title_episode_dash(name).m THEN EpisodeArm(title_episode_dash(name))
    ELSE IF title_episode_quoted_name(name).m THEN EpisodeArm(title_episode_quoted_name(name))
    ELSE IF movie_year(name).m THEN MovieArm(movie_year(name))
    ELSE None

\* Lines 74-106: the cascade.
classify(name) ==
    IF title_season_episode(name).m THEN SeasonEpisodeArm(title_season_episode(name))
    ELSE IF title_episode_dash(name).m THEN EpisodeArm(title_episode_dash(name))
    ELSE IF title_episode_quoted_name(name).m THEN EpisodeArm(title_episode_quoted_name(name))
    ELSE IF title_episode(name).m THEN EpisodeArm(title_episode(name))
    ELSE IF movie_year(name).m THEN MovieArm(movie_year(name))
    ELSE None

\* Mutant of analyze: "ts" taken for a video extension.
analyze_ts_is_video(f) ==
    IF ~HasExtension(f) THEN None
    ELSE IF extension(f) \in VideoExt \cup {<<"t", "s">>} THEN classify(normalize(file_stem(f)))
    ELSE IF extension(f) \in GarbageExt THEN Garbage
    ELSE None

analyze(f) ==
    IF ~HasExtension(f) THEN None
    ELSE IF extension(f) \in VideoExt THEN classify(normalize(file_stem(f)))
    ELSE IF extension(f) \in GarbageExt THEN Garbage
    ELSE None

(***************************************************************************)
(* Paths and the library tree                                              *)
(***************************************************************************)

EmptyMap == [p \in {} |-> 0]

Root == << >>

\* PathBuf::join: joining an empty component names the same directory.
join(p, c) == IF c = << >> THEN p ELSE Append(p, c)

\* Path::parent.
parent(p) == SubSeq(p, 1, Len(p) - 1)

IsPrefix(d, p) == Len(d) <= Len(p) /\ SubSeq(p, 1, Len(d)) = d

\* The directory itself and every directory above it.
Ancestors(d) == {SubSeq(d, 1, k) : k \in 0..Len(d)}

\* A tree is [files |-> path -> inode, dirs |-> set of paths].
\* Path::exists.
exists(tree, p) == p \in DOMAIN tree.files \/ p \in tree.dirs

\* Path::is_dir.
is_dir(tree, p) == p \in tree.dirs

\* Path::read_dir: the entries directly inside a directory.
read_dir(tree, d) ==
    {e \in (DOMAIN tree.files) \cup tree.dirs : Len(e) = Len(d) + 1 /\ IsPrefix(d, e)}

\* find_all_files: every regular file at any depth below p (p itself when it
\* is no directory).
RECURSIVE find_all_files_aux(_, _)
find_all_files_aux(tree, p) ==
    IF is_dir(tree, p)
    THEN UNION {find_all_files_aux(tree, e) : e \in read_dir(tree, p)}
    ELSE {p}

find_all_files(tree, p) == find_all_files_aux(tree, p)

(***************************************************************************)
(* Runner: RealRunner (d = FALSE) and DryRunner (d = TRUE)                 *)
(***************************************************************************)

remove_file(d, tree, p) ==
    IF d THEN tree
    ELSE [tree EXCEPT !.files = [q \in (DOMAIN tree.files) \ {p} |-> tree.files[q]]]

remove_dir(d, tree, p) ==
    IF d THEN tree ELSE [tree EXCEPT !.dirs = tree.dirs \ {p}]

\* Mutant of create_dir_all: the dry runner makes the directories too.
create_dir_all_both(d, tree, p) == [tree EXCEPT !.dirs = tree.dirs \cup Ancestors(p)]

create_dir_all(d, tree, p) ==
    IF d THEN tree ELSE [tree EXCEPT !.dirs = tree.dirs \cup Ancestors(p)]

\* Mutant of hard_link: the real runner links nothing.
hard_link_noop(d, tree, ino, link) == tree

\* The link gets the inode of the original.
hard_link(d, tree, ino, link) ==
    IF d THEN tree ELSE [tree EXCEPT !.files = (link :> ino) @@ tree.files]

(***************************************************************************)
(* analyze_directory                                                       *)
(***************************************************************************)

\* The files that may lie in the incoming directory.
EpisodeDash == <<"a", " ", "-", " ", "1", ".", "m", "k", "v">>
EpisodeBare == <<"a", " ", "0", "1", ".", "m", "k", "v">>
MovieFile == <<"M", " ", "1", "9", "9", "9", " ", "x", ".", "m", "k", "v">>
Subtitle == <<"n", ".", "s", "r", "t">>

SourceNames == {EpisodeDash, EpisodeBare, MovieFile, Subtitle}

\* self.analyze(f) for each of them.
metadata_of == [n \in SourceNames |-> analyze(n)]

ScannedFile(name, ino) == [path |-> name, metadata |-> metadata_of[name], inode |-> ino]

\* The orders read_dir may list a set of names in.
Orders(S) ==
    {o \in [1..Cardinality(S) -> S] : \A i, j \in 1..Cardinality(S) : i # j => o[i] # o[j]}

(***************************************************************************)
(* remove_hardlinks                                                        *)
(***************************************************************************)

source_inodes(files) == {files[i].inode : i \in 1..Len(files)}

RECURSIVE remove_each(_, _, _, _)
remove_each(d, todo, inodes, acc) ==
    IF todo = {} THEN acc
    ELSE LET file == CHOOSE f \in todo : TRUE
             inode == acc.tree.files[file]
         IN  IF inode \in inodes
             THEN remove_each(d, todo \ {file}, inodes,
                      [tree |-> remove_file(d, acc.tree, file),
                       deleted |-> acc.deleted \cup {file}, extra |-> acc.extra])
             ELSE remove_each(d, todo \ {file}, inodes,
                      [tree |-> acc.tree, deleted |-> acc.deleted,
                       extra |-> acc.extra \cup {file}])

\* Mutant of remove_hardlinks: the membership test negated.
remove_hardlinks_not_contains(d, source, tree) ==
    remove_each(d, find_all_files(tree, Root),
                {tree.files[f] : f \in DOMAIN tree.files} \ source_inodes(source),
                [tree |-> tree, deleted |-> {}, extra |-> {}])

\* Mutant of remove_hardlinks: only the inodes of the entries classified Movie
\* or ShowEpisode collected.
remove_hardlinks_media_only(d, source, tree) ==
    remove_each(d, find_all_files(tree, Root),
                {source[i].inode : i \in {k \in 1..Len(source) :
                                              source[k].metadata.kind \in {"Movie", "ShowEpisode"}}},
                [tree |-> tree, deleted |-> {}, extra |-> {}])

\* [tree, deleted, extra]: the tree left, and what was printed.
remove_hardlinks(d, source, tree) ==
    remove_each(d, find_all_files(tree, Root), source_inodes(source),
                [tree |-> tree, deleted |-> {}, extra |-> {}])

(***************************************************************************)
(* create_links                                                            *)
(***************************************************************************)

Shows == <<"s", "h", "o", "w", "s">>
Movies == <<"m", "o", "v", "i", "e", "s">>
SeasonPrefix == <<"S", "e", "a", "s", "o", "n", " ">>
EpisodePrefix == <<"e", "p", "i", "s", "o", "d", "e", " ">>
MoviePrefix == <<"m", "o", "v", "i", "e">>

\* Mutant of link_of: the link put beside the source file, reached from the
\* library through its parent directory.
link_of_beside_source(file) ==
    IF file.metadata.kind \in {"Movie", "ShowEpisode"}
    THEN join(join(join(Root, <<".", ".">>), <<"i", "n", "c", "o", "m", "i", "n", "g">>),
              file.path)
    ELSE << >>

\* Lines 169-187: the link of one scanned file, << >> for `continue`.
link_of(file) ==
    LET md == file.metadata
        ext == extension(file.path)
    IN  IF md.kind = "ShowEpisode"
        THEN join(join(join(join(Root, Shows), md.name),
                       SeasonPrefix \o format_u32(md.season)),
                  EpisodePrefix \o format_u32(md.episode) \o <<".">> \o ext)
        ELSE IF md.kind = "Movie"
        THEN join(join(join(Root, Movies),
                       md.title \o <<" ", "(">> \o format_u32(md.year) \o <<")">>),
                  MoviePrefix \o <<".">> \o ext)
        ELSE << >>

RECURSIVE create_links_from(_, _, _, _)
create_links_from(d, files, i, acc) ==
    IF i > Len(files) THEN acc
    ELSE LET file == files[i]
             link == link_of(file)
         IN  IF link = << >> \/ exists(acc.tree, link)
             THEN create_links_from(d, files, i + 1, acc)
             ELSE create_links_from(d, files, i + 1,
                      [tree |-> hard_link(d, create_dir_all(d, acc.tree, parent(link)),
                                          file.inode, link),
                       links |-> Append(acc.links, <<file.path, link>>)])

Reverse(q) == [i \in 1..Len(q) |-> q[Len(q) + 1 - i]]

\* Mutant of create_links: the files taken from the last to the first.
create_links_reversed(d, files, tree) ==
    create_links_from(d, Reverse(files), 1, [tree |-> tree, links |-> << >>])

\* [tree, links]: the tree left, and the vector returned.
create_links(d, files, tree) ==
    create_links_from(d, files, 1, [tree |-> tree, links |-> << >>])

(***************************************************************************)
(* remove_empty_directories                                                *)
(***************************************************************************)

RECURSIVE prune(_, _, _)
RECURSIVE prune_each(_, _, _)

\* The loop over read_dir(path): acc is [tree, is_empty, removed, order].
prune_each(d, todo, acc) ==
    IF todo = {} THEN acc
    ELSE LET subpath == CHOOSE e \in todo : TRUE
         IN  IF is_dir(acc.tree, subpath)
             THEN LET sub == prune(d, subpath, acc.tree)
                  IN  IF sub.is_empty
                      THEN prune_each(d, todo \ {subpath},
                               [tree |-> remove_dir(d, sub.tree, subpath),
                                is_empty |-> acc.is_empty,
                                removed |-> acc.removed \cup sub.removed \cup {subpath},
                                order |-> acc.order \o sub.order \o <<subpath>>])
                      ELSE prune_each(d, todo \ {subpath},
                               [tree |-> sub.tree, is_empty |-> FALSE,
                                removed |-> acc.removed \cup sub.removed,
                                order |-> acc.order \o sub.order])
             ELSE prune_each(d, todo \ {subpath},
                      [tree |-> acc.tree, is_empty |-> FALSE, removed |-> acc.removed,
                       order |-> acc.order])

prune(d, p, tree) ==
    prune_each(d, read_dir(tree, p),
               [tree |-> tree, is_empty |-> TRUE, removed |-> {}, order |-> << >>])

\* Mutant of remove_empty_directories: no recursion into subdirectories; a
\* directory is removed only when it has no entry at all.
remove_empty_directories_flat(d, p, tree) ==
    LET gone == {e \in read_dir(tree, p) : is_dir(tree, e) /\ read_dir(tree, e) = {}}
    IN  [tree |-> IF d THEN tree ELSE [tree EXCEPT !.dirs = tree.dirs \ gone],
         is_empty |-> gone = read_dir(tree, p), removed |-> gone,
         order |-> CHOOSE o \in Orders(gone) : TRUE]

\* [tree, is_empty, removed, order]: the tree left, the value returned, the
\* directories "removing directory" was printed for, and in which order.
remove_empty_directories(d, p, tree) == prune(d, p, tree)

(***************************************************************************)
(* The file names analyze is checked on                                    *)
(***************************************************************************)

\* The most pieces a generated stem is put together from.
MaxTokens == 3

Tokens ==
    {<<"A", "b">>, <<" ">>, <<" ", "-", " ">>, <<"-">>, <<"1", "3">>, <<"0">>,
     <<" ", "1", "9", "9", "9">>, <<" ", "S", "0", "E", "1">>,
     <<" ", "E", "1", " ", "'">>, <<" ", "(", "x", ")">>, <<"v", "2">>,
     <<" ", "E", "N", "D">>, <<"[", "x", "]">>, <<"_">>, <<ArabicThree>>,
     <<"4", "2", "9", "4", "9", "6", "7", "2", "9", "6">>}

RECURSIVE Generated(_)
Generated(n) ==
    IF n = 0 THEN {<< >>}
    ELSE Generated(n - 1) \cup {s \o t : s \in Generated(n - 1), t \in Tokens}

SomeMovie1999 ==
    <<"S", "o", "m", "e", " ", "M", "o", "v", "i", "e", " ", "1", "9", "9", "9">>
ShowNameS02E05 ==
    <<"S", "h", "o", "w", " ", "N", "a", "m", "e", " ", "S", "0", "2", "E", "0", "5",
      " ", "e", "x", "t", "r", "a">>
SeriesName13 ==
    <<"S", "e", "r", "i", "e", "s", " ", "N", "a", "m", "e", " ", "-", " ", "1", "3">>
SomeMovie1999Rip ==
    <<"S", "o", "m", "e", ".", "M", "o", "v", "i", "e", ".", "1", "9", "9", "9", ".",
      "x", "2", "6", "4">>

Examples == {SomeMovie1999, ShowNameS02E05, SeriesName13, SomeMovie1999Rip}

Stems == Examples \cup Generated(MaxTokens)

Mkv == <<".", "m", "k", "v">>
Mp4 == <<".", "m", "p", "4">>

\* Every recognized-garbage extension after stems of every shape, the empty
\* stem included (".srt" is a file name without extension).
GarbageNames == {s \o <<".">> \o e : s \in Examples \cup Generated(1), e \in GarbageExt}

FileNames ==
    {s \o Mkv : s \in Stems}
        \cup {s \o Mp4 : s \in Examples}
        \cup {s \o e : s \in Examples,
                        e \in {<<".", "s", "r", "t">>, <<".", "S", "R", "T">>, <<".", "z", "z">>, << >>}}
        \cup GarbageNames

IsVideo(f) == HasExtension(f) /\ extension(f) \in VideoExt

(***************************************************************************)
(* The classifier on its own: analyze applied to one file name             *)
(***************************************************************************)

EmptyTree == [files |-> EmptyMap, dirs |-> {Root}, owned |-> {}]

FsStart ==
    /\ src = EmptyMap
    /\ tfiles = EmptyMap
    /\ tdirs = {Root}
    /\ pc = "idle"
    /\ dry = FALSE
    /\ scanned_files = << >>
    /\ deleted = {}
    /\ extra = {}
    /\ links = << >>
    /\ removed_dirs = << >>
    /\ owned = {}
    /\ t0 = EmptyTree
    /\ change = [kind |-> "other"]
    /\ hist = [kind |-> "other"]

InitAnalyze ==
    /\ path \in FileNames
    /\ result = [kind |-> "pending"]
    /\ FsStart

Analyze ==
    /\ result.kind = "pending"
    /\ result' = analyze(path)
    /\ UNCHANGED <<path, fvars>>

NextAnalyze == Analyze

SpecAnalyze == InitAnalyze /\ [][NextAnalyze]_vars

Analyzed == result.kind # "pending"

(***************************************************************************)
(* Claims about Analyzer::analyze (checked under SpecAnalyze)              *)
(***************************************************************************)

\* The name the patterns see for the file being analyzed.
Name == normalize(file_stem(path))

\* The five rules in the order of the cascade, 1 = (a) ... 5 = (e).
RuleCaptures(i, name) ==
    CASE i = 1 -> title_season_episode(name)
      [] i = 2 -> title_episode_dash(name)
      [] i = 3 -> title_episode_quoted_name(name)
      [] i = 4 -> title_episode(name)
      [] i = 5 -> movie_year(name)

Matching(name) == {i \in 1..5 : RuleCaptures(i, name).m}

\* 0 when no rule matches.
FirstRule(name) == IF Matching(name) = {} THEN 0 ELSE Min(Matching(name))

\* The digits rule i reads do not convert to a u32.
Unparsable(i, name) ==
    LET x == RuleCaptures(i, name)
    IN  \/ ~parse_u32(x.g2).ok
        \/ i = 1 /\ ~parse_u32(x.g3).ok

\* What rule i alone makes of the name it matches.
RuleOutcome(i, name) ==
    LET x == RuleCaptures(i, name)
    IN  IF Unparsable(i, name) THEN Panic
        ELSE IF i = 1 THEN ShowEpisode(x.g1, parse_u32(x.g2).val, parse_u32(x.g3).val)
        ELSE IF i = 5 THEN Movie(x.g1, parse_u32(x.g2).val)
        ELSE ShowEpisode(x.g1, 1, parse_u32(x.g2).val)

PlainChar(c) ==
    c \notin AsciiDigits \cup {ArabicThree, " ", "-", "_", ".", "'", "(", ")", "[", "]"}

\* A stem that is a plain name, a space and exactly four digits at its end.
TrailingYear(stem) ==
    LET n == Len(stem)
    IN  /\ n >= 6
        /\ \A k \in (n - 3)..n : stem[k] \in AsciiDigits
        /\ stem[n - 4] = " "
        /\ PlainChar(stem[1]) /\ PlainChar(stem[n - 5])
        /\ \A k \in 1..(n - 5) : PlainChar(stem[k]) \/ stem[k] = " "

\* C7: a video file whose stem is a name, a space and exactly four digits at
\* the end ("Some Movie 1999") is classified Movie, with the lower-cased name
\* as title and the four-digit number as year, not ShowEpisode.
C7_TrailingYearIsMovie ==
    (Analyzed /\ IsVideo(path) /\ TrailingYear(file_stem(path)))
        => LET stem == file_stem(path)
               n == Len(stem)
           IN  result = Movie(to_lowercase(Slice(stem, 1, n - 5)),
                              parse_u32(Slice(stem, n - 3, n)).val)

\* C8: when a rule matches a video file's name but the digits it captured do
\* not convert to the integer type, analyze returns None for that path; it
\* does not abort.
C8_UnparsableIsNone ==
    (Analyzed /\ IsVideo(path) /\ FirstRule(Name) # 0 /\ Unparsable(FirstRule(Name), Name))
        => result = None

\* C9 as stated: every ShowEpisode record analyze produces has season >= 1
\* and episode >= 0.
C9_SeasonAtLeastOne ==
    (Analyzed /\ result.kind = "ShowEpisode") => (result.season >= 1 /\ result.episode >= 0)

\* C9 as amended: every ShowEpisode record analyze produces has season >= 0
\* and episode >= 0, and its season is 1 unless the name matches the explicit
\* S<season>E<episode> rule, which gives the season as written (S00E01: 0).
C9_SeasonBounds ==
    (Analyzed /\ result.kind = "ShowEpisode")
        => /\ result.season >= 0
           /\ result.episode >= 0
           /\ ~title_season_episode(Name).m => result.season = 1
           /\ title_season_episode(Name).m
                 => result.season = parse_u32(title_season_episode(Name).g2).val

\* C9 witnesses: a record with season 0 from the explicit rule.
C9_Witness ==
    /\ Analyzed
    /\ result.kind = "ShowEpisode"
    /\ result.season = 0
    /\ title_season_episode(Name).m

\* C10: for every video file name the classification is the outcome of the
\* first rule, in the order (a) S<season>E<episode>, (b) dash, (c) quoted
\* title, (d) bare trailing integer, (e) four-digit year, that matches the
\* normalized name; no later rule's outcome is returned when an earlier one
\* matches; with no matching rule the file is unrecognized.  "Show Name
\* S02E05 extra" gives ShowEpisode{show name, 2, 5} and "Series Name - 13"
\* gives ShowEpisode{series name, 1, 13}.
C10_FirstMatchingRule ==
    (Analyzed /\ IsVideo(path))
        => /\ FirstRule(Name) = 0 => result = None
           /\ FirstRule(Name) # 0 => result = RuleOutcome(FirstRule(Name), Name)
           /\ file_stem(path) = ShowNameS02E05
                 => result = ShowEpisode(<<"s", "h", "o", "w", " ", "n", "a", "m", "e">>, 2, 5)
           /\ file_stem(path) = SeriesName13
                 => result = ShowEpisode(
                        <<"s", "e", "r", "i", "e", "s", " ", "n", "a", "m", "e">>, 1, 13)

\* C10 witness: two rules match, the later one would have given another
\* record, and the earlier one's record is what analyze returned.
C10_Witness ==
    /\ Analyzed
    /\ IsVideo(path)
    /\ \E i \in Matching(Name) : \E j \in Matching(Name) :
          /\ i < j
          /\ i = FirstRule(Name)
          /\ RuleOutcome(j, Name) # RuleOutcome(i, Name)
          /\ result = RuleOutcome(i, Name)
          /\ result.kind = "ShowEpisode"

\* The inventory entry analyze_directory makes of the file analyzed.
Entry == [path |-> path, metadata |-> result, inode |-> 1]

\* C11: for every path whose extension is one of the recognized-garbage
\* extensions analyze yields Garbage, whatever the stem is, and create_links,
\* with either runner, makes no link for such an entry: it computes no link
\* path, returns no link and leaves the tree as it is.
C11_GarbageExtensionIsGarbage ==
    (Analyzed /\ HasExtension(path) /\ extension(path) \in GarbageExt)
        => /\ result = Garbage
           /\ link_of(Entry) = << >>
           /\ \A d \in BOOLEAN :
                 LET r == create_links(d, <<Entry>>, EmptyTree)
                 IN  r.links = << >> /\ r.tree = EmptyTree

\* C11 witness: a garbage extension after a stem that the cascade would make
\* a show episode of, classified Garbage.
C11_Witness ==
    /\ Analyzed
    /\ HasExtension(path)
    /\ extension(path) = <<"t", "s">>
    /\ classify(normalize(file_stem(path))).kind = "ShowEpisode"
    /\ result = Garbage

(***************************************************************************)
(* main, run after run, and what happens to the two trees in between       *)
(***************************************************************************)

\* The largest inode number: at most so many different files exist at once.
MaxInode == 2

Inodes == 1..MaxInode


\* Where somebody else may put a file or a directory in the library.
ExtraDir == <<"e", "x", "t", "r", "a">>
ExtraFile == <<ExtraDir, <<"f", ".", "t", "x", "t">>>>
ForeignPaths == {ExtraFile, link_of(ScannedFile(EpisodeDash, 1))}
ForeignDirs == {<<ExtraDir, <<"s", "u", "b">>>>}

Tree == [files |-> tfiles, dirs |-> tdirs]

Other == [kind |-> "other"]

Init ==
    /\ path = << >>
    /\ result = [kind |-> "pending"]
    /\ FsStart

Stopped == pc \in {"idle", "done"}

\* The process has exited: its variables are gone.
Exited ==
    /\ pc' = "idle"
    /\ dry' = FALSE
    /\ scanned_files' = << >>
    /\ deleted' = {}
    /\ extra' = {}
    /\ links' = << >>
    /\ removed_dirs' = << >>
    /\ t0' = EmptyTree
    /\ hist' = Other

\* The inodes in use, and the one a new file gets.
Used == {src[n] : n \in DOMAIN src} \cup {tfiles[p] : p \in DOMAIN tfiles}
Fresh == IF Inodes \ Used = {} THEN {} ELSE {Min(Inodes \ Used)}

\* A file appears in the incoming directory: a new file, or a hardlink of a
\* file of the library that no incoming file shares.
AddSource(n, i) ==
    /\ Stopped
    /\ n \notin DOMAIN src
    /\ i \in Fresh \cup {tfiles[p] : p \in DOMAIN tfiles}
    /\ \A m \in DOMAIN src : src[m] # i
    /\ src' = (n :> i) @@ src
    /\ change' = Other
    /\ Exited
    /\ UNCHANGED <<path, result, tfiles, tdirs, owned>>

\* A file of the incoming directory is renamed.
RenameSource(n, m) ==
    /\ Stopped
    /\ n \in DOMAIN src
    /\ m \notin DOMAIN src
    /\ src' = (m :> src[n]) @@ [k \in (DOMAIN src) \ {n} |-> src[k]]
    /\ change' = Other
    /\ Exited
    /\ UNCHANGED <<path, result, tfiles, tdirs, owned>>

\* The link the last run made for a source file, << >> if it made none.
LinkMadeFor(n) ==
    LET made == {k \in 1..Len(links) : links[k][1] = n}
    IN  IF made = {} THEN << >> ELSE links[CHOOSE k \in made : TRUE][2]

\* A file is removed from the incoming directory.
RemoveSource(n) ==
    /\ Stopped
    /\ n \in DOMAIN src
    /\ src' = [m \in (DOMAIN src) \ {n} |-> src[m]]
    /\ change' = IF change.kind = "same"
                 THEN [kind |-> "removed", inv |-> change.inv, name |-> n,
                       inode |-> src[n], link |-> LinkMadeFor(n)]
                 ELSE Other
    /\ Exited
    /\ UNCHANGED <<path, result, tfiles, tdirs, owned>>

\* Somebody else puts a file into the library: a new file, or a hardlink of
\* an existing one.
AddForeign(p, i) ==
    /\ Stopped
    /\ p \in ForeignPaths
    /\ i \in Fresh \cup Used
    /\ ~exists(Tree, p)
    /\ tfiles' = (p :> i) @@ tfiles
    /\ tdirs' = tdirs \cup Ancestors(parent(p))
    /\ change' = Other
    /\ Exited
    /\ UNCHANGED <<path, result, src, owned>>

\* Somebody else makes a directory in the library.
MakeDir(p) ==
    /\ Stopped
    /\ p \in ForeignDirs
    /\ p \notin tdirs
    /\ tdirs' = tdirs \cup Ancestors(p)
    /\ change' = Other
    /\ Exited
    /\ UNCHANGED <<path, result, src, tfiles, owned>>

Without(inv, n) == SelectSeq(inv, LAMBDA f : f.path # n)

\* Lines 236-253: the arguments, analyze_directory, the runner.
Scan(d, order) ==
    LET files == [k \in 1..Len(order) |-> ScannedFile(order[k], src[order[k]])]
    IN  /\ Stopped
        /\ scanned_files' = files
        /\ dry' = d
        /\ pc' = IF \E k \in 1..Len(files) : files[k].metadata = Panic
                 THEN "aborted" ELSE "scanned"
        /\ t0' = [files |-> tfiles, dirs |-> tdirs, owned |-> owned]
        /\ hist' = IF change.kind = "same" /\ files = change.inv
                   THEN [kind |-> "same"]
                   ELSE IF change.kind = "removed" /\ files = Without(change.inv, change.name)
                   THEN [kind |-> "removed", name |-> change.name,
                         inode |-> change.inode, link |-> change.link]
                   ELSE Other
        /\ change' = Other
        /\ deleted' = {}
        /\ extra' = {}
        /\ links' = << >>
        /\ removed_dirs' = << >>
        /\ UNCHANGED <<path, result, src, tfiles, tdirs, owned>>

\* Line 255.
RemoveHardlinks ==
    LET r == remove_hardlinks(dry, scanned_files, Tree)
    IN  /\ pc = "scanned"
        /\ pc' = "reclaimed"
        /\ tfiles' = r.tree.files
        /\ tdirs' = r.tree.dirs
        /\ deleted' = r.deleted
        /\ extra' = r.extra
        /\ owned' = owned \cap DOMAIN r.tree.files
        /\ UNCHANGED <<path, result, src, dry, scanned_files, links, removed_dirs, t0,
                       change, hist>>

\* Mutant of CreateLinks: main calls create_links right after the scan,
\* without waiting for remove_hardlinks.
CreateLinksBeforeReclaim ==
    LET r == create_links(dry, scanned_files, Tree)
    IN  /\ pc = "scanned"
        /\ pc' = "created"
        /\ tfiles' = r.tree.files
        /\ tdirs' = r.tree.dirs
        /\ links' = r.links
        /\ owned' = owned \cup ((DOMAIN r.tree.files) \ DOMAIN tfiles)
        /\ UNCHANGED <<path, result, src, dry, scanned_files, deleted, extra,
                       removed_dirs, t0, change, hist>>

\* Line 256.
CreateLinks ==
    LET r == create_links(dry, scanned_files, Tree)
    IN  /\ pc = "reclaimed"
        /\ pc' = "created"
        /\ tfiles' = r.tree.files
        /\ tdirs' = r.tree.dirs
        /\ links' = r.links
        /\ owned' = owned \cup ((DOMAIN r.tree.files) \ DOMAIN tfiles)
        /\ UNCHANGED <<path, result, src, dry, scanned_files, deleted, extra,
                       removed_dirs, t0, change, hist>>

\* Line 257.
RemoveEmptyDirectories ==
    LET r == remove_empty_directories(dry, Root, Tree)
    IN  /\ pc = "created"
        /\ pc' = "done"
        /\ tfiles' = r.tree.files
        /\ tdirs' = r.tree.dirs
        /\ removed_dirs' = r.order
        /\ change' = IF dry THEN Other ELSE [kind |-> "same", inv |-> scanned_files]
        /\ UNCHANGED <<path, result, src, dry, scanned_files, deleted, extra, links,
                       owned, t0, hist>>

Next ==
    \/ \E n \in SourceNames, i \in Inodes : AddSource(n, i)
    \/ \E n \in SourceNames : RemoveSource(n)
    \/ \E n \in SourceNames, m \in SourceNames : RenameSource(n, m)
    \/ \E p \in ForeignPaths, i \in Inodes : AddForeign(p, i)
    \/ \E p \in ForeignDirs : MakeDir(p)
    \/ \E d \in BOOLEAN, order \in Orders(DOMAIN src) : Scan(d, order)
    \/ RemoveHardlinks
    \/ CreateLinks
    \/ RemoveEmptyDirectories

Spec == Init /\ [][Next]_vars

(***************************************************************************)
(* Claims about the runs (checked under Spec)                              *)
(***************************************************************************)

InoSet == source_inodes(scanned_files)

AfterReclaim == pc \in {"reclaimed", "created", "done"}

MutatingDone == pc = "done" /\ ~dry

\* The regular files at any depth below directory d.
FilesUnder(files, d) == {f \in DOMAIN files : IsPrefix(d, f)}

LinkPaths == {links[k][2] : k \in 1..Len(links)}

\* This mutating run follows a completed mutating run, with nothing changed
\* outside in between and the same inventory scanned.
SecondRun == MutatingDone /\ hist.kind = "same"

AfterRemoval ==
    /\ MutatingDone
    /\ hist.kind = "removed"
    /\ hist.link # << >>
    /\ hist.inode \notin InoSet

\* C2 as stated: the run after the removal of a source file deletes the
\* hardlink made for it, and every other file of the library is still at its
\* path with its inode.
C2_StaleLinkDeleted ==
    AfterRemoval
        => /\ hist.link \notin DOMAIN tfiles
           /\ \A p \in (DOMAIN t0.files) \ {hist.link} :
                 p \in DOMAIN tfiles /\ tfiles[p] = t0.files[p]

\* C2 as amended: the run after the removal of a source file does not delete
\* the hardlink made for it: it reports it as an extra file and leaves it at
\* its path with its inode; and every other file of the library is at its
\* path with its inode after the run.
C2_StaleLinkKept ==
    AfterRemoval
        => /\ hist.link \in extra
           /\ hist.link \notin deleted
           /\ hist.link \in DOMAIN tfiles
           /\ tfiles[hist.link] = hist.inode
           /\ \A p \in DOMAIN t0.files : p \in DOMAIN tfiles /\ tfiles[p] = t0.files[p]

\* C2 witness: the stale hardlink is there after the run, and the run
\* deleted and re-created another hardlink.
C2_Witness == AfterRemoval /\ hist.link \in DOMAIN tfiles /\ deleted # {} /\ links # << >>

\* What a run with runner d deletes and creates from the tree as it is.
Report(d) ==
    LET a == remove_hardlinks(d, scanned_files, Tree)
        b == create_links(d, scanned_files, a.tree)
    IN  [deleted |-> a.deleted, created |-> {b.links[k] : k \in 1..Len(b.links)}]

\* C3: from the same tree and inventory, the deletions and creations a dry
\* run reports are those a mutating run performs.
C3_DryRunEquivalence == pc = "scanned" => Report(TRUE) = Report(FALSE)

\* C4 as stated: a file of the library that no hard_link of this tool made is
\* never deleted by a run, whatever its inode and the inventory; a run
\* deletes only files a previous run created.
C4_ForeignNeverDeleted ==
    AfterReclaim
        => \A p \in (DOMAIN t0.files) \ t0.owned :
              p \in DOMAIN tfiles /\ tfiles[p] = t0.files[p]

\* C4 as amended: a file of the library whose inode is not the inode of a
\* scanned source file is never deleted by a run, only reported as extra;
\* a file whose inode is the inode of a scanned source file is deleted by the
\* reclaim phase of a mutating run, whether this tool linked it or not.
C4_UnsharedInodeNeverDeleted ==
    AfterReclaim
        => \A p \in DOMAIN t0.files :
              IF t0.files[p] \notin InoSet
              THEN /\ p \in extra
                   /\ p \notin deleted
                   /\ p \in DOMAIN tfiles
                   /\ tfiles[p] = t0.files[p]
              ELSE /\ p \in deleted
                   /\ p \notin extra
                   /\ (pc = "reclaimed" /\ ~dry) => p \notin DOMAIN tfiles

\* C4 witness: the reclaim phase of a mutating run reported one foreign file
\* and deleted another.
C4_Witness ==
    /\ pc = "reclaimed"
    /\ ~dry
    /\ \E p \in (DOMAIN t0.files) \ t0.owned :
          t0.files[p] \notin InoSet /\ p \in extra /\ p \in DOMAIN tfiles
    /\ \E q \in (DOMAIN t0.files) \ t0.owned : q \in deleted /\ q \notin DOMAIN tfiles

\* C5 as stated: when the hardlink of a removed source file was the last file
\* of its directory, after the next mutating run that directory and every
\* directory above it that has become empty, the root excepted, is gone; the
\* root is there.
C5_RemovedSourcePruned ==
    (AfterRemoval /\ FilesUnder(t0.files, parent(hist.link)) = {hist.link})
        => /\ Root \in tdirs
           /\ \A d \in Ancestors(parent(hist.link)) \ {Root} :
                 FilesUnder(tfiles, d) \ {hist.link} = {} => d \notin tdirs

\* C5 as amended: after a mutating run, when the reclaim phase deleted a file
\* and the create phase put no file back below its directory, that directory
\* and every directory above it left without a file, the root excepted, is
\* gone; no directory below the root is left without a file; the root is
\* there.  The hardlink of a removed source file is not deleted, so its
\* directory stays.
C5_EmptiedDirectoriesPruned ==
    MutatingDone
        => /\ Root \in tdirs
           /\ \A p \in deleted : \A d \in Ancestors(parent(p)) \ {Root} :
                 d \in tdirs <=> FilesUnder(tfiles, d) # {}
           /\ \A d \in tdirs \ {Root} : FilesUnder(tfiles, d) # {}
           /\ AfterRemoval => parent(hist.link) \in tdirs

\* C5 witness: the reclaim phase deleted the last file of a directory, and
\* the directory is gone after the run.
C5_Witness ==
    /\ MutatingDone
    /\ \E p \in deleted :
          /\ FilesUnder(t0.files, parent(p)) = {p}
          /\ parent(p) \in t0.dirs
          /\ parent(p) \notin tdirs
          /\ Root \in tdirs

\* The inventory entries that compute link P, and the creations decided for P.
EntriesFor(P) == {k \in 1..Len(scanned_files) : link_of(scanned_files[k]) = P}
LinksFor(P) == {k \in 1..Len(links) : links[k][2] = P}

\* The links two or more inventory entries compute.
Colliding ==
    {P \in {link_of(scanned_files[k]) : k \in 1..Len(scanned_files)} :
        P # << >> /\ Cardinality(EntriesFor(P)) >= 2}

\* Whether P existed when the create phase started.
ExistedBeforeCreate(P) ==
    \/ P \in (DOMAIN t0.files) \ (IF dry THEN {} ELSE deleted)
    \/ P \in t0.dirs

MediaEntries ==
    {k \in 1..Len(scanned_files) : scanned_files[k].metadata.kind \in {"Movie", "ShowEpisode"}}
MediaInodes == {scanned_files[k].inode : k \in MediaEntries}
AllInodes == {scanned_files[k].inode : k \in 1..Len(scanned_files)}

\* C12 as stated: the reclaim phase tests the library files against the
\* inodes of the entries classified Movie or ShowEpisode only: a library file
\* is taken for a hardlink of the inventory (and deleted) exactly when its
\* inode is the inode of such an entry; the inode of a Garbage or
\* unclassified entry is not in the set.
C12_OnlyMediaInodesTested ==
    AfterReclaim
        => \A p \in DOMAIN t0.files : p \in deleted <=> t0.files[p] \in MediaInodes

\* C12 as amended: the reclaim phase tests the library files against the
\* inodes of all the inventory entries, whatever their classification: a
\* library file is deleted exactly when its inode is the inode of some entry
\* and reported as extra otherwise; a library file with the inode of a Garbage
\* entry is deleted and, after a mutating run, is gone unless a Movie or
\* ShowEpisode entry was linked at its path.
C12_EveryEntryInodeTested ==
    /\ AfterReclaim
          => \A p \in DOMAIN t0.files :
                /\ p \in deleted <=> t0.files[p] \in AllInodes
                /\ p \in extra <=> t0.files[p] \notin AllInodes
    /\ MutatingDone
          => \A p \in DOMAIN t0.files :
                t0.files[p] \in AllInodes \ MediaInodes
                    => (p \notin DOMAIN tfiles \/ tfiles[p] \in MediaInodes)

\* C12 witness: the reclaim phase of a mutating run deleted a library file
\* whose inode is that of a Garbage entry and of no Movie or ShowEpisode entry.
C12_Witness ==
    /\ pc = "reclaimed"
    /\ ~dry
    /\ \E p \in deleted :
          /\ t0.files[p] \notin MediaInodes
          /\ \E k \in 1..Len(scanned_files) :
                scanned_files[k].metadata = Garbage /\ scanned_files[k].inode = t0.files[p]
          /\ p \notin DOMAIN tfiles

\* Lines 255-257 with the mutating runner: the tree a run leaves of `tree`
\* for the inventory `files`.
RunTree(files, tree) ==
    LET a == remove_hardlinks(FALSE, files, tree)
        b == create_links(FALSE, files, a.tree)
        c == remove_empty_directories(FALSE, Root, b.tree)
    IN  c.tree

\* The same entries in every order.
Reorderings(files) ==
    {[k \in 1..Len(files) |-> files[o[k]]] : o \in Orders(1..Len(files))}

\* The library as the run found it.
StartTree == [files |-> t0.files, dirs |-> t0.dirs]

\* C13: the tree a mutating run leaves does not depend on the order of the
\* inventory: from the same starting tree, every order of the same entries
\* gives the same paths, each with the same inode.
C13_OrderIndependent ==
    MutatingDone => \A f \in Reorderings(scanned_files) : RunTree(f, StartTree) = Tree

\* The directories the prune phase removed.
Removed == {removed_dirs[k] : k \in 1..Len(removed_dirs)}

\* The directories of `dirs` strictly below directory d.
DirsBelow(dirs, d) == {e \in dirs : e # d /\ IsPrefix(d, e)}

\* In the order of the removals every directory comes after the directories
\* of `dirs` below it.
BottomUp(order, dirs) ==
    \A k \in 1..Len(order) :
        \A e \in DirsBelow(dirs, order[k]) : \E j \in 1..(k - 1) : order[j] = e

\* C14: when remove_empty_directories runs with the mutating runner on the
\* library root, a directory strictly below the root is removed if and only
\* if there is no regular file at any depth below it when pruning starts;
\* every removed directory is removed only after all the directories below
\* it; the root is never removed, and no file is touched.
C14_PrunedIffNoFileBelow ==
    /\ (pc = "created" /\ ~dry)
          => LET r == remove_empty_directories(FALSE, Root, Tree)
             IN  /\ r.tree.dirs = {d \in tdirs : d = Root \/ FilesUnder(tfiles, d) # {}}
                 /\ r.tree.files = tfiles
                 /\ r.removed = tdirs \ r.tree.dirs
                 /\ {r.order[k] : k \in 1..Len(r.order)} = r.removed
                 /\ Len(r.order) = Cardinality(r.removed)
                 /\ BottomUp(r.order, tdirs)
    /\ MutatingDone
          => /\ Root \in tdirs
             /\ Root \notin Removed
             /\ Removed \cap tdirs = {}
             /\ Len(removed_dirs) = Cardinality(Removed)
             /\ \A d \in (tdirs \cup Removed) \ {Root} :
                   d \in Removed <=> FilesUnder(tfiles, d) = {}
             /\ BottomUp(removed_dirs, tdirs \cup Removed)

\* C14 witness: a mutating run removed a directory and, before it, a
\* directory below it, and kept a directory with a file below it.
C14_Witness ==
    /\ MutatingDone
    /\ \E j \in 1..Len(removed_dirs) : \E k \in 1..Len(removed_dirs) :
          j < k /\ removed_dirs[j] \in DirsBelow(Removed, removed_dirs[k])
    /\ \E d \in tdirs \ {Root} : FilesUnder(tfiles, d) # {}

\* The incoming files as the inventory recorded them: path to inode.
Inventory ==
    [n \in {scanned_files[k].path : k \in 1..Len(scanned_files)} |->
        scanned_files[CHOOSE k \in 1..Len(scanned_files) : scanned_files[k].path = n].inode]

\* C15: a dry run leaves the filesystem unchanged: after each of its reclaim,
\* create and prune phases the files (with their inodes) and the directories
\* of the library, and the files of the incoming directory, are what they
\* were when the run started.
C15_DryRunChangesNothing ==
    (dry /\ pc \in {"reclaimed", "created", "done"})
        => /\ tfiles = t0.files
           /\ tdirs = t0.dirs
           /\ src = Inventory

\* C15 witness: a completed dry run that reported a deletion, a creation and
\* a directory removal.
C15_Witness ==
    /\ dry
    /\ pc = "done"
    /\ deleted # {}
    /\ links # << >>
    /\ removed_dirs # << >>
    /\ tfiles = t0.files

\* A run is between its scan and its end.
Running == pc \in {"scanned", "reclaimed", "created"}

\* What a step does: it records deletions, creations or directory removals,
\* or takes a file or a directory out of the library or puts one in.
Deletes == deleted' # deleted /\ deleted' # {}
Creates == links' # links /\ links' # << >>
Prunes == removed_dirs' # removed_dirs /\ removed_dirs' # << >>
LosesFile == \E p \in DOMAIN tfiles : p \notin DOMAIN tfiles' \/ tfiles'[p] # tfiles[p]
GainsFile == (DOMAIN tfiles') \ (DOMAIN tfiles) # {}
LosesDir == tdirs \ tdirs' # {}
GainsDir == tdirs' \ tdirs # {}

\* C16: within one run the scan of the incoming directory is finished before
\* any deletion, every deletion of the reclaim phase happens before any
\* hardlink is created, and every hardlink is created before any directory is
\* removed: deletions are made only by the step that follows the scan, with
\* the whole inventory at hand and nothing created or pruned yet; creations
\* only by the step after it, which deletes nothing; directory removals only
\* by the step after that, which neither deletes nor creates.
C16_PhaseOrder ==
    [][ /\ (Deletes \/ LosesFile)
              => /\ pc = "scanned" /\ pc' = "reclaimed"
                 /\ scanned_files' = scanned_files
                 /\ Inventory = src
                 /\ links = << >> /\ links' = << >>
                 /\ removed_dirs = << >> /\ removed_dirs' = << >>
                 /\ ~GainsFile /\ ~GainsDir /\ ~LosesDir
        /\ (Creates \/ (Running /\ (GainsFile \/ GainsDir)))
              => /\ pc = "reclaimed" /\ pc' = "created"
                 /\ scanned_files' = scanned_files
                 /\ deleted' = deleted
                 /\ removed_dirs = << >> /\ removed_dirs' = << >>
                 /\ ~LosesFile /\ ~LosesDir
        /\ (Prunes \/ LosesDir)
              => /\ pc = "created" /\ pc' = "done"
                 /\ scanned_files' = scanned_files
                 /\ deleted' = deleted
                 /\ links' = links
                 /\ tfiles' = tfiles
                 /\ ~GainsDir
      ]_vars

\* C16 witness: a completed mutating run that deleted a file, created a
\* hardlink and removed a directory.
C16_Witness ==
    /\ MutatingDone
    /\ deleted # {}
    /\ links # << >>
    /\ removed_dirs # << >>
    /\ tfiles # t0.files \/ tdirs # t0.dirs

incoming == <<<<"i", "n", "c", "o", "m", "i", "n", "g">>>>
jellyfin == <<<<"j", "e", "l", "l", "y", "f", "i", "n">>>>

\* Where the operating system finds a path: "." and empty components name
\* the directory itself, ".." the directory above.
RECURSIVE Resolve(_)
Resolve(p) ==
    IF p = << >> THEN << >>
    ELSE LET r == Resolve(SubSeq(p, 1, Len(p) - 1))
             c == p[Len(p)]
         IN  IF c = <<".", ".">> THEN (IF r = << >> THEN r ELSE SubSeq(r, 1, Len(r) - 1))
             ELSE IF c \in {<< >>, <<".">>} THEN r
             ELSE Append(r, c)

\* A path of the library, as the runner is given it, names something strictly
\* below the library directory and nothing of the incoming directory.
UnderTarget(p) ==
    LET a == Resolve(jellyfin \o p)
    IN  /\ \A k \in 1..Len(p) : \A i \in 1..Len(p[k]) : p[k][i] # "/"
        /\ IsPrefix(jellyfin, a)
        /\ Len(a) > Len(jellyfin)
        /\ ~IsPrefix(incoming, a)

\* Every path a runner method was called with: remove_file, hard_link (the
\* link), create_dir_all, remove_dir.
Touched == deleted \cup LinkPaths \cup {parent(P) : P \in LinkPaths} \cup Removed

\* C18: with the incoming directory and the library side by side, no run,
\* mutating or dry, removes, creates or renames anything in the incoming
\* directory: every path given to remove_file, remove_dir and create_dir_all
\* and every link created lies below the library directory, and every
\* scanned file is in the incoming directory, with its inode, after each
\* phase of the run.
C18_SourceUntouched ==
    (pc \in {"reclaimed", "created", "done"})
        => /\ src = Inventory
           /\ \A p \in Touched : UnderTarget(p)
           /\ \A p \in (DOMAIN tfiles) \cup tdirs : p = Root \/ UnderTarget(p)

\* C18 witness: a completed mutating run that deleted and created links of
\* two incoming files, both still there.
C18_Witness ==
    /\ MutatingDone
    /\ Cardinality(DOMAIN src) = 2
    /\ Cardinality(deleted) >= 1
    /\ Len(links) >= 1
    /\ src = Inventory

====
